---- MODULE Spec2Model ----
(***************************************************************************)
(* The asynchronous task engine of python/multi-threaded-api:              *)
(*   httpapi/apiroutes/handler/__init__.py  HandlerQueue, ResponseQueue,   *)
(*                                          Handler (the Dispatcher thread)*)
(*   httpapi/apiroutes/handler/tasks.py     TaskProcessor (the registry)   *)
(*   httpapi/apiroutes/__init__.py          the endpoints and the lifespan *)
(*                                                                         *)
(* Threads: the Handler thread (run / process_queue_task), the uvicorn     *)
(* event loop (the endpoints are coroutines without an await between their *)
(* calls into the Handler, so one endpoint call runs at a time), and the   *)
(* lifespan that starts and stops the Handler.  Every ResponseQueue method *)
(* runs under ResponseQueue.lock and is one atomic step.                   *)
(***************************************************************************)
EXTENDS Integers, Sequences, FiniteSets, TLC

\* Number of transaction ids uuid4 hands out in a run.
MaxTasks == 2

\* Number of threads FastAPIThreadedServer.start creates in a run.
MaxStarts == 3

STATUS_PENDING == "pending"
STATUS_READY == "ready"
STATUS_COMPLETED == "completed"
STATUS_FAILED == "failed"

(***************************************************************************)
(* Python values, as [type, val]: val is the JSON text of a dict or an     *)
(* int, the characters of a str, the repr of anything else.                *)
(***************************************************************************)
PyNone == [type |-> "NoneType", val |-> "None"]
PyDict(text) == [type |-> "dict", val |-> text]
PyStr(chars) == [type |-> "str", val |-> chars]
PyInt(digits) == [type |-> "int", val |-> digits]
PySet(repr) == [type |-> "set", val |-> repr]

\* Request bodies: request.json() of the body {"x": 1} and of the body "123".
Payloads == {PyDict("{\"x\": 1}"), PyStr("123")}

\* request.json() of the body 1180591620717411303424: a Python int that does
\* not fit sqlite's 64-bit INTEGER (binding it raises OverflowError).
BIG_INT == [type |-> "bigint", val |-> "1180591620717411303424"]

\* Request bodies including one the store cannot take.
FaultPayloads == Payloads \cup {BIG_INT}

\* Route names a caller can pass to put_task_queue.
Routes == {"put_task_queue", "transaction_id", "nope"}

\* The attributes hasattr finds on a TaskProcessor instance: the route
\* method and the instance attribute set by __init__.
ProcessorAttrs == {"put_task_queue", "transaction_id"}

\* {"error": msg}
ErrorDict(msg) == PyDict("{\"error\": \"" \o msg \o "\"}")

UnknownRouteMsg(route) == "Unknown route: " \o route

\* What a route method hands back through the executor.
TASK_DONE == PyDict("{\"status\": \"task completed\", \"processor\": \"TaskProcessor\"}")
UNSERIALIZABLE == PySet("{1}")
ReturnValues == {TASK_DONE, UNSERIALIZABLE}

HANDLER_ERROR == "handler raised"
NOT_CALLABLE == "'str' object is not callable"
NOT_JSON == "Object of type set is not JSON serializable"

\* future.result() of executor.submit(getattr(processor, route), payload):
\* [raised, value] where value is the return value or str(e).
Returned(v) == [raised |-> FALSE, value |-> v]
Raised(msg) == [raised |-> TRUE, value |-> PyStr(msg)]
Outcomes(route) ==
    IF route = "put_task_queue"
    THEN {Returned(v) : v \in ReturnValues} \cup {Raised(HANDLER_ERROR)}
    ELSE {Raised(NOT_CALLABLE)}

(***************************************************************************)
(* json.dumps / json.loads and the sqlite3 parameter binding.              *)
(* A cell is [aff, val]: a TEXT with its characters, an INTEGER, or NULL.  *)
(***************************************************************************)
Cell(aff, val) == [aff |-> aff, val |-> val]

\* json.dumps(v): [ok, text]; TypeError for what JSON cannot encode.
json_dumps(v) ==
    CASE v.type = "dict" -> [ok |-> TRUE, text |-> v.val]
      [] v.type = "int" -> [ok |-> TRUE, text |-> v.val]
      [] v.type = "str" -> [ok |-> TRUE, text |-> "\"" \o v.val \o "\""]
      [] v.type = "NoneType" -> [ok |-> TRUE, text |-> "null"]
      [] OTHER -> [ok |-> FALSE, text |-> ""]

\* The JSON-encodable values of the model; json.loads inverts json.dumps on
\* their texts and raises JSONDecodeError on any other text.
JsonValues ==
    Payloads \cup {PyInt("123"), PyNone, TASK_DONE}
    \cup {ErrorDict(UnknownRouteMsg(r)) : r \in Routes}
    \cup {ErrorDict(m) : m \in {HANDLER_ERROR, NOT_CALLABLE, NOT_JSON}}

JsonTexts == {json_dumps(v).text : v \in JsonValues}

json_loads(text) ==
    IF text \in JsonTexts
    THEN [ok |-> TRUE, value |-> CHOOSE v \in JsonValues : json_dumps(v).text = text]
    ELSE [ok |-> FALSE, value |-> PyNone]

\* sqlite3 binding of a Python value to a column.
sqlite_bind(v) ==
    CASE v.type = "str" -> Cell("TEXT", v.val)
      [] v.type = "int" -> Cell("INTEGER", v.val)
      [] v.type = "NoneType" -> Cell("NULL", "None")
      [] OTHER -> Cell("ERROR", v.val)

\* The Python value sqlite3.Row gives back for a cell.
sqlite_value(cell) ==
    CASE cell.aff = "TEXT" -> PyStr(cell.val)
      [] cell.aff = "INTEGER" -> PyInt(cell.val)
      [] OTHER -> PyNone

(***************************************************************************)
(* ResponseQueue: the sqlite table "queue" as the set of its rows          *)
(* [transaction_id, route, payload, status]; payload is a cell.            *)
(***************************************************************************)
Row(tid, route, cell, status) ==
    [transaction_id |-> tid, route |-> route, payload |-> cell, status |-> status]

HasRow(table, tid) == \E r \in table : r.transaction_id = tid

RowOf(table, tid) == CHOOSE r \in table : r.transaction_id = tid

\* A put that returns without inserting.
put_nothing(table, tid, route, payload) == [ok |-> TRUE, table |-> table]

\* A put whose statement is INSERT OR REPLACE.
put_replace(table, tid, route, payload) ==
    [ok |-> TRUE,
     table |-> {r \in table : r.transaction_id # tid}
               \cup {[transaction_id |-> tid, route |-> route,
                      payload |-> [aff |-> "TEXT", val |-> payload.val],
                      status |-> STATUS_PENDING]}]

\* ResponseQueue.put: json.dumps of a dict, then INSERT; the status column
\* takes its DEFAULT.  [ok, table]: not ok is the exception the statement
\* raises (IntegrityError on the PRIMARY KEY, a value sqlite cannot bind,
\* TypeError of json.dumps), which leaves the table as it was.
put(table, tid, route, payload) ==
    LET cell == IF payload.type = "dict"
                THEN IF json_dumps(payload).ok
                     THEN Cell("TEXT", json_dumps(payload).text)
                     ELSE Cell("ERROR", "")
                ELSE sqlite_bind(payload)
    IN  IF cell.aff = "ERROR" \/ HasRow(table, tid)
        THEN [ok |-> FALSE, table |-> table]
        ELSE [ok |-> TRUE, table |-> table \cup {Row(tid, route, cell, STATUS_PENDING)}]

\* update_status that inserts the row when the id has none.
update_status_upsert(table, tid, status, payload) ==
    IF ~json_dumps(payload).ok
    THEN [ok |-> FALSE, table |-> table]
    ELSE [ok |-> TRUE,
          table |-> {r \in table : r.transaction_id # tid}
                    \cup {[transaction_id |-> tid, route |-> "",
                           payload |-> [aff |-> "TEXT", val |-> json_dumps(payload).text],
                           status |-> status]}]

\* update_status as two statements, seen after the first: the status is
\* written, the payload not yet.
update_status_torn(table, tid, status, payload) ==
    IF ~json_dumps(payload).ok
    THEN [ok |-> FALSE, table |-> table]
    ELSE [ok |-> TRUE,
          table |-> {IF r.transaction_id = tid THEN [r EXCEPT !.status = status] ELSE r
                     : r \in table}]

\* update_status whose UPDATE has lost its WHERE clause.
update_status_all(table, tid, status, payload) ==
    IF ~json_dumps(payload).ok
    THEN [ok |-> FALSE, table |-> table]
    ELSE [ok |-> TRUE,
          table |-> {[r EXCEPT !.payload = Cell("TEXT", json_dumps(payload).text),
                               !.status = status] : r \in table}]

\* ResponseQueue.update_status: UPDATE ... SET payload = json.dumps(payload),
\* status = ? WHERE transaction_id = ?.  json.dumps runs before the
\* statement, so its TypeError leaves the table as it was.
update_status(table, tid, status, payload) ==
    IF ~json_dumps(payload).ok
    THEN [ok |-> FALSE, table |-> table]
    ELSE [ok |-> TRUE,
          table |-> {IF r.transaction_id = tid
                     THEN [r EXCEPT !.payload = Cell("TEXT", json_dumps(payload).text),
                                    !.status = status]
                     ELSE r : r \in table}]

\* What get_task returns: None, or the dict of transaction_id, payload, status.
None == [transaction_id |-> 0, payload |-> PyNone, status |-> "None"]

\* ResponseQueue.get_task: the payload column goes through json.loads; when
\* that raises (not JSON text, or not a str at all) the raw value is kept.
get_task(table, tid) ==
    IF ~HasRow(table, tid)
    THEN None
    ELSE LET row == RowOf(table, tid)
             raw == sqlite_value(row.payload)
             loaded == IF raw.type = "str" THEN json_loads(raw.val)
                       ELSE [ok |-> FALSE, value |-> raw]
         IN  [transaction_id |-> row.transaction_id,
              payload |-> IF loaded.ok THEN loaded.value ELSE raw,
              status |-> row.status]

\* task_done with the wrong status constant in its UPDATE.
task_done_pending(table, tid, purge) ==
    IF purge
    THEN {r \in table : r.transaction_id # tid}
    ELSE {IF r.transaction_id = tid THEN [r EXCEPT !.status = STATUS_PENDING] ELSE r
          : r \in table}

\* task_done that deletes the row whatever the flag.
task_done_purge_always(table, tid, purge) ==
    {r \in table : r.transaction_id # tid}

\* task_done whose DELETE has lost its WHERE clause.
task_done_all(table, tid, purge) ==
    IF purge
    THEN {}
    ELSE {IF r.transaction_id = tid THEN [r EXCEPT !.status = STATUS_COMPLETED] ELSE r
          : r \in table}

\* ResponseQueue.task_done: DELETE the row, or UPDATE its status to completed.
task_done(table, tid, purge) ==
    IF purge
    THEN {r \in table : r.transaction_id # tid}
    ELSE {IF r.transaction_id = tid THEN [r EXCEPT !.status = STATUS_COMPLETED] ELSE r
          : r \in table}

\* A dump that leaves the acknowledged rows out.
dump_unfinished(table) == {r \in table : r.status # STATUS_COMPLETED}

\* ResponseQueue.dump: SELECT * FROM queue, the rows as they are stored.
dump(table) == table

(***************************************************************************)
(* State.                                                                  *)
(***************************************************************************)
VARIABLES
    iqueue,           \* Handler.iqueue: the queued (transaction_id, route, payload)
    unfinished_tasks, \* queue.Queue.unfinished_tasks of iqueue
    rqueue,           \* Handler.rqueue: the rows of the table
    stop_event,       \* Handler._stop_event
    hpc,              \* where the Handler thread is
    task,             \* the task run() holds
    issued,           \* how many ids uuid4 has handed out
    lpc,              \* where router_lifespan is
    apiPc,            \* where the endpoint call in progress is
    apiTask,          \* the dict task_queue_status got from get_task_status
    submitted,        \* history: the tasks put_task_queue enqueued, in order
    dequeued,         \* history: the ids run() took from iqueue, in order
    executing,        \* the ids whose future has not resolved yet
    executed,         \* history: the ids handed to executor.submit
    outcome,          \* history: id -> what future.result() gave
    dstatus,          \* history: id -> the statuses the Handler thread wrote
    readyObs,         \* history: id -> status calls that got a ready dict (0, 1, many)
    firstReady,       \* history: id -> the dict the first of them got
    stopInflight,     \* history: the id run() held when stop() was called
    stopDequeued,     \* history: how many tasks run() had taken when stop() was called
    lastPut,          \* history: the id of the last direct rqueue.put, and whether it returned
    purgedIds,        \* history: the ids whose row a purge deleted
    purgedInFlight,   \* history: those of them purged while run() worked on the task
    server_thread,    \* FastAPIThreadedServer._server_thread: 0 for None, else the thread
    server,           \* FastAPIThreadedServer.server: 0 for None, else the uvicorn.Server
    threads,          \* the uvicorn threads start() has created: unborn, created, serving, dead
    runs,             \* thread -> the uvicorn.Server whose run() it entered, 0 before
    should_exit,      \* should_exit of the uvicorn.Server each start() made
    should_stop,      \* FastAPIThreadedServer._should_stop
    spc,              \* where the caller of start()/stop() is
    lastCall          \* history: how the caller's last start() or stop() ended

vars == <<iqueue, unfinished_tasks, rqueue, stop_event, hpc, task, issued, lpc,
          apiPc, apiTask, submitted, dequeued, executing, executed, outcome,
          dstatus, readyObs, firstReady, stopInflight, stopDequeued, lastPut,
          purgedIds, purgedInFlight, server_thread, server, threads, runs,
          should_exit, should_stop, spc, lastCall>>

storeVars == <<rqueue>>
queueVars == <<iqueue, unfinished_tasks, issued, submitted>>
threadVars == <<hpc, task, dequeued, executing, executed, outcome, dstatus>>
apiVars == <<apiPc, apiTask, readyObs, firstReady>>
stopVars == <<stop_event, stopInflight, stopDequeued>>
callVars == <<lastPut, purgedIds>>
srvVars == <<server_thread, server, threads, runs, should_exit, should_stop, spc,
             lastCall>>
moreVars == <<purgedInFlight, srvVars>>

Ids == 1..MaxTasks
\* An id no submit ever returned.
UnknownId == MaxTasks - MaxTasks

Task(tid, route, payload) == [transaction_id |-> tid, route |-> route, payload |-> payload]
NoTask == Task(0, "", PyNone)
NoOutcome == [raised |-> FALSE, value |-> PyNone]

\* An id generator that repeats itself.
uuid4_repeat(n) == 1

\* uuid4(): the n-th call gives an id no earlier call gave.
uuid4(n) == n

Init ==
    /\ iqueue = <<>>
    /\ unfinished_tasks = 0
    /\ rqueue = {}
    /\ stop_event = FALSE
    /\ hpc = "new"
    /\ task = NoTask
    /\ issued = 0
    /\ lpc = "new"
    /\ apiPc = "idle"
    /\ apiTask = None
    /\ submitted = <<>>
    /\ dequeued = <<>>
    /\ executing = {}
    /\ executed = {}
    /\ outcome = [t \in Ids |-> NoOutcome]
    /\ dstatus = [t \in Ids |-> <<>>]
    /\ readyObs = [t \in Ids |-> 0]
    /\ firstReady = [t \in Ids |-> None]
    /\ stopInflight = UnknownId
    /\ stopDequeued = 0
    /\ lastPut = [tid |-> UnknownId, ok |-> TRUE]
    /\ purgedIds = {}
    /\ purgedInFlight = {}
    /\ server_thread = 0
    /\ server = 0
    /\ threads = [i \in 1..MaxStarts |-> "unborn"]
    /\ runs = [i \in 1..MaxStarts |-> 0]
    /\ should_exit = [i \in 1..MaxStarts |-> FALSE]
    /\ should_stop = FALSE
    /\ spc = "idle"
    /\ lastCall = "none"

(***************************************************************************)
(* router_lifespan: start the Handler thread; at shutdown stop() it and    *)
(* join(timeout=5.0), which returns when the thread ended or the timeout   *)
(* elapsed.                                                                *)
(***************************************************************************)
lifespan_start ==
    /\ lpc = "new"
    /\ lpc' = "up"
    /\ hpc' = "while"
    /\ UNCHANGED <<iqueue, unfinished_tasks, rqueue, stopVars, callVars, moreVars, task, issued,
                   submitted, dequeued, executing, executed, outcome, dstatus>>
    /\ UNCHANGED apiVars

\* Handler.stop
stop ==
    /\ lpc = "up"
    /\ lpc' = "join"
    /\ stop_event' = TRUE
    /\ stopInflight' = IF hpc \in {"put", "resolve", "result"}
                       THEN task.transaction_id ELSE UnknownId
    /\ stopDequeued' = Len(dequeued)
    /\ UNCHANGED <<storeVars, queueVars, threadVars, apiVars, callVars, moreVars>>

lifespan_join ==
    /\ lpc = "join"
    /\ lpc' = "down"
    /\ UNCHANGED <<storeVars, queueVars, threadVars, apiVars, stopVars, callVars, moreVars>>

(***************************************************************************)
(* Blocking.  ResponseQueue takes self.lock in a "with" block around each  *)
(* sqlite statement and nowhere else; each block lies within one step of   *)
(* the Handler thread, so the thread holds the lock at none of its labels. *)
(* Queue.put waits only while a bounded queue is full.                     *)
(***************************************************************************)
\* A process_queue_task that keeps the lock while it waits for the future.
rqueue_locked_at_result == {"result"}

\* The labels at which the Handler thread holds rqueue.lock.
rqueue_locked_at == {}

\* with self.lock: the caller gets the lock when the thread does not hold it.
lock_free == hpc \notin rqueue_locked_at

\* HandlerQueue(): maxsize defaults to 0, which queue.Queue takes as unbounded.
maxsize == 0

\* queue.Queue.put waits while 0 < maxsize <= qsize.
full(q) == maxsize > 0 /\ Len(q) >= maxsize

\* A submit that inserts the pending record itself.
submit_store_insert(table, t) ==
    put(table, t.transaction_id, t.route, t.payload).table

\* What put_task_queue does to the table: nothing, it only calls iqueue.put.
submit_store(table, t) == table

(***************************************************************************)
(* Handler.put_task_queue, called by enqueue_task.                         *)
(***************************************************************************)
put_task_queue(route_name, payload) ==
    /\ apiPc = "idle"
    /\ issued < MaxTasks
    /\ ~full(iqueue)
    /\ LET transaction_id == uuid4(issued + 1)
           t == Task(transaction_id, route_name, payload)
       IN  /\ iqueue' = Append(iqueue, t)
           /\ submitted' = Append(submitted, t)
           /\ rqueue' = submit_store(rqueue, t)
    /\ unfinished_tasks' = unfinished_tasks + 1
    /\ issued' = issued + 1
    /\ UNCHANGED <<threadVars, apiVars, stopVars, callVars, moreVars, lpc>>

(***************************************************************************)
(* Handler.run and Handler.process_queue_task.                             *)
(***************************************************************************)
\* A loop that empties the queue before it ends.
while_next_drain == IF stop_event /\ iqueue = <<>> THEN "stopped" ELSE "get"

\* The while condition: the loop ends when the flag is set, whatever is
\* left in the queue.
while_next == IF stop_event THEN "stopped" ELSE "get"

\* while not self._stop_event.is_set()
run_while ==
    /\ hpc = "while"
    /\ hpc' = while_next
    /\ UNCHANGED <<storeVars, queueVars, apiVars, stopVars, callVars, moreVars, lpc, task, dequeued,
                   executing, executed, outcome, dstatus>>

\* A queue that hands out the newest item first.
queue_get_lifo(q) ==
    [item |-> q[Len(q)], rest |-> SubSeq(q, 1, Len(q) - 1)]

\* HandlerQueue is a queue.Queue: get takes the oldest item.
queue_get(q) == [item |-> Head(q), rest |-> Tail(q)]

\* task = self.iqueue.get(timeout=self.interval)
run_get ==
    /\ hpc = "get"
    /\ iqueue # <<>>
    /\ task' = queue_get(iqueue).item
    /\ iqueue' = queue_get(iqueue).rest
    /\ dequeued' = Append(dequeued, queue_get(iqueue).item.transaction_id)
    /\ hpc' = "put"
    /\ UNCHANGED <<storeVars, apiVars, stopVars, callVars, moreVars, lpc, unfinished_tasks, issued,
                   submitted, executing, executed, outcome, dstatus>>

\* A get without timeout: the thread stays in get while the queue is empty.
after_empty_block == "get"

\* get(timeout=self.interval) raises queue.Empty once the interval is over,
\* and "continue" goes back to the while condition.
after_empty == "while"

\* except queue.Empty: continue
run_empty ==
    /\ hpc = "get"
    /\ iqueue = <<>>
    /\ hpc' = after_empty
    /\ UNCHANGED <<storeVars, queueVars, apiVars, stopVars, callVars, moreVars, lpc, task, dequeued,
                   executing, executed, outcome, dstatus>>

\* A thread that catches the exception of put and goes on with the loop.
after_put_ignore(ok) == IF ok THEN "resolve" ELSE "task_done"

\* put returned: on to the route lookup.  put raised: neither
\* process_queue_task nor run() (which catches queue.Empty only) handles it,
\* and the thread ends with the exception.
after_put(ok) == IF ok THEN "resolve" ELSE "died"

\* self.rqueue.put(transaction_id, route, payload); an exception of put is
\* caught nowhere and ends the thread.
process_put ==
    /\ hpc = "put"
    /\ LET r == put(rqueue, task.transaction_id, task.route, task.payload)
       IN  /\ rqueue' = r.table
           /\ hpc' = after_put(r.ok)
    /\ UNCHANGED <<queueVars, apiVars, stopVars, callVars, moreVars, lpc, task, dequeued, executing,
                   executed, outcome, dstatus>>

\* A lookup that finds every name.
hasattr_any(route) == TRUE

\* hasattr(processor, route)
hasattr_route(route) == route \in ProcessorAttrs

\* A thread that gives the future up once stop() was called.
after_submit_stop == IF stop_event THEN "stopped" ELSE "result"

\* A thread that does not wait for the future.
after_submit_nowait == "task_done"

\* Where the thread goes after executor.submit: it waits in future.result().
after_submit == "result"

\* An unknown route that leaves process_queue_task with an exception.
after_unknown_route_raise == "died"

\* The unknown-route branch ends in "return": run() goes on with
\* self.iqueue.task_done().
after_unknown_route == "task_done"

\* The route lookup: an unknown route is written as failed and the task is
\* over; a known one is handed to the executor.
process_resolve ==
    /\ hpc = "resolve"
    /\ IF ~hasattr_route(task.route)
       THEN /\ rqueue' = update_status(rqueue, task.transaction_id, STATUS_FAILED,
                                       ErrorDict(UnknownRouteMsg(task.route))).table
            /\ dstatus' = [dstatus EXCEPT ![task.transaction_id] = Append(@, STATUS_FAILED)]
            /\ hpc' = after_unknown_route
            /\ UNCHANGED <<executing, executed>>
       ELSE /\ executing' = executing \cup {task.transaction_id}
            /\ executed' = executed \cup {task.transaction_id}
            /\ hpc' = after_submit
            /\ UNCHANGED <<rqueue, dstatus>>
    /\ UNCHANGED <<queueVars, apiVars, stopVars, callVars, moreVars, lpc, task, dequeued, outcome>>

\* The try block with an except that writes nothing.
result_update_swallow(table, tid, o) ==
    IF o.raised \/ ~update_status(table, tid, STATUS_READY, o.value).ok
    THEN [status |-> STATUS_PENDING, table |-> table]
    ELSE [status |-> STATUS_READY,
          table |-> update_status(table, tid, STATUS_READY, o.value).table]

\* The try block around future.result(): [status, table] after it.
\*   result = future.result(); update_status(payload=result, status=ready)
\*   except Exception as e: update_status(payload={"error": str(e)}, status=failed)
\* The TypeError of json.dumps inside the first update_status is caught by
\* the same except.
result_update(table, tid, o) ==
    IF o.raised
    THEN [status |-> STATUS_FAILED,
          table |-> update_status(table, tid, STATUS_FAILED, ErrorDict(o.value.val)).table]
    ELSE IF update_status(table, tid, STATUS_READY, o.value).ok
    THEN [status |-> STATUS_READY,
          table |-> update_status(table, tid, STATUS_READY, o.value).table]
    ELSE [status |-> STATUS_FAILED,
          table |-> update_status(table, tid, STATUS_FAILED, ErrorDict(NOT_JSON)).table]

\* The future resolves with o and the outcome is written.
process_result(o) ==
    /\ hpc = "result"
    /\ o \in Outcomes(task.route)
    /\ LET u == result_update(rqueue, task.transaction_id, o)
       IN  /\ rqueue' = u.table
           /\ dstatus' = [dstatus EXCEPT ![task.transaction_id] = Append(@, u.status)]
    /\ outcome' = [outcome EXCEPT ![task.transaction_id] = o]
    /\ executing' = executing \ {task.transaction_id}
    /\ hpc' = "task_done"
    /\ UNCHANGED <<queueVars, apiVars, stopVars, callVars, moreVars, lpc, task, dequeued, executed>>

\* A loop that forgets the acknowledgment.
queue_task_done_lost(n) == n

\* queue.Queue.task_done: one unfinished task less.
queue_task_done(n) == n - 1

\* self.iqueue.task_done()
run_task_done ==
    /\ hpc = "task_done"
    /\ unfinished_tasks' = queue_task_done(unfinished_tasks)
    /\ hpc' = "while"
    /\ UNCHANGED <<storeVars, apiVars, stopVars, callVars, moreVars, lpc, iqueue, issued, submitted, task,
                   dequeued, executing, executed, outcome, dstatus>>

(***************************************************************************)
(* The endpoint task_queue_status: get_task_status, then set_task_done     *)
(* when the dict it got is ready.  The two calls take the lock one after   *)
(* the other, so the Handler thread can run between them.                  *)
(***************************************************************************)
\* Handler.get_task_status
get_task_status(table, tid) == get_task(table, tid)

\* Handler.get_response_queue, which task_queue_all returns as "tasks"
get_response_queue(table) == dump(table)

\* Handler.set_task_done
set_task_done(table, tid, purge) == task_done(table, tid, purge)

\* An acknowledgment test that takes every resolved record.
should_ack_resolved(t) == t.status # STATUS_PENDING

\* An acknowledgment test that also takes a completed record.
should_ack_done(t) == t.status \in {STATUS_READY, STATUS_COMPLETED}

\* The acknowledgment test against the wrong status.
should_ack_failed(t) == t.status = STATUS_FAILED

\* if "status" in task and task["status"] == STATUS_READY
should_ack(t) == t.status = STATUS_READY

Answer(code, t) == [code |-> code, task |-> t]

\* What task_queue_status answers from the dict get_task_status gave it:
\* 404 for None, 202 for a pending one, else the dict itself.
task_queue_status(t) ==
    IF t = None THEN Answer(404, None)
    ELSE IF t.status = STATUS_PENDING THEN Answer(202, t)
    ELSE Answer(200, t)

\* History bookkeeping: count 0, 1, many.
Bump(n) == IF n < 2 THEN n + 1 ELSE n

\* The call up to its answer, or up to the point where it goes on to
\* set_task_done.
status_get(tid) ==
    /\ apiPc = "idle"
    /\ lock_free
    /\ LET t == get_task_status(rqueue, tid)
       IN  IF task_queue_status(t).code = 200 /\ should_ack(t)
           THEN /\ apiPc' = "ack"
                /\ apiTask' = t
           ELSE UNCHANGED <<apiPc, apiTask>>
    /\ LET t == get_task_status(rqueue, tid)
       IN  IF t.status = STATUS_READY
           THEN /\ readyObs' = [readyObs EXCEPT ![tid] = Bump(@)]
                /\ firstReady' = IF readyObs[tid] = 0
                                 THEN [firstReady EXCEPT ![tid] = t]
                                 ELSE firstReady
           ELSE UNCHANGED <<readyObs, firstReady>>
    /\ UNCHANGED <<storeVars, queueVars, threadVars, stopVars, callVars, moreVars, lpc>>

\* handler.set_task_done(transaction_id=transaction_id); return task
status_ack ==
    /\ apiPc = "ack"
    /\ lock_free
    /\ rqueue' = set_task_done(rqueue, apiTask.transaction_id, FALSE)
    /\ apiPc' = "idle"
    /\ apiTask' = None
    /\ UNCHANGED <<queueVars, threadVars, stopVars, callVars, moreVars, lpc, readyObs, firstReady>>

(***************************************************************************)
(* Specifications.                                                         *)
(***************************************************************************)
IssuedIds == 1..issued

HandlerStep ==
    \/ run_while
    \/ run_get
    \/ run_empty
    \/ process_put
    \/ process_resolve
    \/ \E o \in Outcomes(task.route) : process_result(o)
    \/ run_task_done

Next ==
    \/ lifespan_start
    \/ stop
    \/ lifespan_join
    \/ \E route \in Routes, payload \in Payloads : put_task_queue(route, payload)
    \/ \E tid \in IssuedIds \cup {UnknownId} : status_get(tid)
    \/ status_ack
    \/ HandlerStep

Spec == Init /\ [][Next]_vars

\* The Handler thread is scheduled, the executor's future resolves (the
\* route method terminates), and the event loop finishes the call it runs.
FairSpec == Spec /\ WF_vars(HandlerStep) /\ WF_vars(status_ack)

\* The same with nothing assumed about the event loop: only the Handler
\* thread is scheduled and the future resolves.
FairHandler == Spec /\ WF_vars(HandlerStep)

(***************************************************************************)
(* Handler.set_task_done is a public method: besides the status endpoint,  *)
(* any holder of the handler object can call it, for any id, with either   *)
(* purge flag, at any time.  SpecAdmin adds such calls to the program     *)
(* while the application is up (between the two halves of router_lifespan).*)
(***************************************************************************)
call_set_task_done(tid, purge) ==
    /\ lock_free
    /\ rqueue' = set_task_done(rqueue, tid, purge)
    /\ purgedIds' = IF purge /\ HasRow(rqueue, tid) THEN purgedIds \cup {tid} ELSE purgedIds
    /\ purgedInFlight' =
          IF /\ purge
             /\ HasRow(rqueue, tid)
             /\ hpc \in {"resolve", "result"}
             /\ task.transaction_id = tid
          THEN purgedInFlight \cup {tid} ELSE purgedInFlight
    /\ UNCHANGED <<queueVars, threadVars, apiVars, stopVars, lastPut, lpc, srvVars>>

NextAdmin ==
    \/ lifespan_start
    \/ \E route \in Routes, payload \in Payloads : put_task_queue(route, payload)
    \/ \E tid \in IssuedIds \cup {UnknownId} : status_get(tid)
    \/ status_ack
    \/ HandlerStep
    \/ \E tid \in IssuedIds \cup {UnknownId}, purge \in BOOLEAN :
          call_set_task_done(tid, purge)

SpecAdmin == Init /\ [][NextAdmin]_vars

(***************************************************************************)
(* SpecFault: the program with request bodies among which is one whose     *)
(* INSERT fails, so that a write of the store fails while the Handler      *)
(* thread processes a task.                                                *)
(***************************************************************************)
NextFault ==
    \/ lifespan_start
    \/ stop
    \/ lifespan_join
    \/ \E route \in Routes, payload \in FaultPayloads : put_task_queue(route, payload)
    \/ \E tid \in IssuedIds \cup {UnknownId} : status_get(tid)
    \/ status_ack
    \/ HandlerStep

SpecFault == Init /\ [][NextFault]_vars

(***************************************************************************)
(* The ResponseQueue on its own: its methods called directly, in any       *)
(* order, with any id (handler.rqueue is a public attribute).  SpecStore   *)
(* checks what each method does to a table, the cases the Handler thread   *)
(* never produces included (a put for an id that has a row).               *)
(***************************************************************************)
\* The (status, payload) pairs update_status is called with.
StoreUpdates ==
    {<<STATUS_READY, TASK_DONE>>, <<STATUS_FAILED, ErrorDict(HANDLER_ERROR)>>}

\* The route the direct puts name (a row keeps its route as an opaque string).
StoreRoutes == {"put_task_queue"}

store_put(tid, route, payload) ==
    /\ lock_free
    /\ LET p == put(rqueue, tid, route, payload)
       IN  /\ rqueue' = p.table
           /\ lastPut' = [tid |-> tid, ok |-> p.ok]
    /\ UNCHANGED <<queueVars, threadVars, apiVars, stopVars, purgedIds, lpc, moreVars>>

store_update_status(tid, status, payload) ==
    /\ lock_free
    /\ rqueue' = update_status(rqueue, tid, status, payload).table
    /\ UNCHANGED <<queueVars, threadVars, apiVars, stopVars, callVars, moreVars, lpc>>

NextStore ==
    \/ \E tid \in Ids, route \in StoreRoutes, payload \in Payloads :
          store_put(tid, route, payload)
    \/ \E tid \in Ids, u \in StoreUpdates : store_update_status(tid, u[1], u[2])
    \/ \E tid \in Ids, purge \in BOOLEAN : call_set_task_done(tid, purge)

SpecStore == Init /\ [][NextStore]_vars

(***************************************************************************)
(* Properties.                                                             *)
(***************************************************************************)
StatusOf(tid) == get_task_status(rqueue, tid).status
ResultOf(tid) == get_task_status(rqueue, tid).payload
SubmittedIds == {submitted[i].transaction_id : i \in 1..Len(submitted)}
DequeuedIds == {dequeued[i] : i \in 1..Len(dequeued)}
RouteOf(tid) == submitted[CHOOSE i \in 1..Len(submitted) : submitted[i].transaction_id = tid].route
StatusRank(st) ==
    CASE st = STATUS_PENDING -> 0
      [] st = STATUS_READY -> 1
      [] st = STATUS_FAILED -> 1
      [] st = STATUS_COMPLETED -> 2

\* C1: a status lookup for an id that submit has returned never gives None
\* (not-found): every submitted id has a record, whatever the Handler thread
\* has done so far.
C1_StatusNeverNotFound ==
    \A tid \in SubmittedIds : get_task_status(rqueue, tid) # None

\* The answer a status call for tid would give in this state.
AnswerNow(tid) == task_queue_status(get_task_status(rqueue, tid))

\* C2: acknowledgment law.  At most one status call ever gets a ready dict
\* for an id, and a record is completed only after one did; once that call
\* is over the record is completed (while the call is between its two steps
\* the record is still ready), and from the first observation on the stored
\* result is the payload that call got, so every later status call answers
\* completed with that same result.
C2_AckLaw ==
    \A tid \in Ids :
        /\ readyObs[tid] <= 1
        /\ StatusOf(tid) = STATUS_COMPLETED => readyObs[tid] = 1
        /\ readyObs[tid] = 1 =>
              /\ firstReady[tid].status = STATUS_READY
              /\ IF apiPc = "ack" /\ apiTask.transaction_id = tid
                 THEN StatusOf(tid) = STATUS_READY /\ apiTask = firstReady[tid]
                 ELSE AnswerNow(tid) =
                          Answer(200, [firstReady[tid] EXCEPT !.status = STATUS_COMPLETED])

\* C2 witness: the call that got the ready dict is over, the record is
\* completed, and the Handler thread has gone on to another task.
C2_Witness ==
    \E tid \in Ids :
        /\ readyObs[tid] = 1
        /\ apiPc = "idle"
        /\ AnswerNow(tid).task.status = STATUS_COMPLETED
        /\ task.transaction_id # tid

\* C3: in every step of submit, Handler thread and status poll, a record
\* that exists keeps existing and its status stays or moves forward along
\* pending -> {ready | failed} -> completed.
C3_Monotonic ==
    [][\A tid \in Ids :
          HasRow(rqueue, tid) =>
              /\ HasRow(rqueue', tid)
              /\ \/ RowOf(rqueue', tid).status = RowOf(rqueue, tid).status
                 \/ StatusRank(RowOf(rqueue', tid).status)
                        > StatusRank(RowOf(rqueue, tid).status)]_vars

\* C3 witness: a record has gone the whole way to completed while another
\* one is still pending.
C3_Witness ==
    \E t1, t2 \in Ids :
        /\ HasRow(rqueue, t1) /\ RowOf(rqueue, t1).status = STATUS_COMPLETED
        /\ HasRow(rqueue, t2) /\ RowOf(rqueue, t2).status = STATUS_PENDING

ErrorResults ==
    {ErrorDict(UnknownRouteMsg(r)) : r \in Routes}
    \cup {ErrorDict(m) : m \in {HANDLER_ERROR, NOT_CALLABLE, NOT_JSON}}

\* The Handler thread has finished process_queue_task for tid.
Processed(tid) ==
    /\ tid \in DequeuedIds
    /\ task.transaction_id = tid => hpc \in {"task_done", "while", "get", "stopped"}

C5_UnknownRouteFails ==
    \A tid \in SubmittedIds :
        RouteOf(tid) \notin ProcessorAttrs =>
            /\ tid \notin executed
            /\ tid \notin executing
            /\ Processed(tid) =>
                  /\ dstatus[tid] = <<STATUS_FAILED>>
                  /\ StatusOf(tid) = STATUS_FAILED
                  /\ ResultOf(tid) = ErrorDict(UnknownRouteMsg(RouteOf(tid)))
                  /\ ResultOf(tid) \in ErrorResults

\* C5 witness: an unknown-route task has been processed and a task of a
\* known route has gone to the executor.
C5_Witness ==
    \E t1, t2 \in SubmittedIds :
        /\ RouteOf(t1) \notin ProcessorAttrs /\ Processed(t1)
        /\ StatusOf(t1) = STATUS_FAILED
        /\ t2 \in executed

\* C6: when the route method returned v the Handler thread writes ready
\* with result v, and never failed; when it raised, the Handler thread
\* writes failed with an error result.
C6_OutcomeRecorded ==
    \A tid \in executed :
        Processed(tid) =>
            IF outcome[tid].raised
            THEN /\ dstatus[tid] = <<STATUS_FAILED>>
                 /\ ResultOf(tid) = ErrorDict(outcome[tid].value.val)
            ELSE /\ dstatus[tid] = <<STATUS_READY>>
                 /\ ResultOf(tid) = outcome[tid].value

C8_ResultWriteOnce ==
    /\ [](\A tid \in Ids :
             /\ Len(dstatus[tid]) <= 1
             /\ HasRow(rqueue, tid) =>
                   (RowOf(rqueue, tid).status = STATUS_PENDING <=> dstatus[tid] = <<>>))
    /\ [][\A tid \in Ids :
             (HasRow(rqueue, tid) /\ HasRow(rqueue', tid)) =>
                 \/ /\ RowOf(rqueue', tid).payload = RowOf(rqueue, tid).payload
                    /\ (RowOf(rqueue, tid).status = STATUS_PENDING
                           => RowOf(rqueue', tid).status = STATUS_PENDING)
                 \/ /\ RowOf(rqueue, tid).status = STATUS_PENDING
                    /\ RowOf(rqueue', tid).status \in {STATUS_READY, STATUS_FAILED}
                    /\ Len(dstatus'[tid]) = Len(dstatus[tid]) + 1]_vars

\* C8 witness: one record was acknowledged and still holds the result the
\* first status call saw, while the result of another is being written.
C8_Witness ==
    \E t1, t2 \in Ids :
        /\ StatusOf(t1) = STATUS_COMPLETED
        /\ ResultOf(t1) = firstReady[t1].payload
        /\ ResultOf(t1) = outcome[t1].value
        /\ StatusOf(t2) = STATUS_FAILED

\* C9: the store holds exactly one record for every id submit has returned
\* (the record is created at submission and only once), and never two
\* records with one id.
C9_OneRecordFromSubmission ==
    /\ \A r1, r2 \in rqueue : r1.transaction_id = r2.transaction_id => r1 = r2
    /\ \A tid \in SubmittedIds :
          Cardinality({r \in rqueue : r.transaction_id = tid}) = 1

\* C10: one task at a time.  At most one id is in the executor, and it is
\* the task the Handler thread holds; every task dequeued before the latest
\* one has had its outcome written and its record has left pending.
C10_OneTaskAtATime ==
    /\ Cardinality(executing) <= 1
    /\ executing \subseteq {task.transaction_id}
    /\ executing # {} => hpc = "result"
    /\ \A i \in 1..Len(dequeued) :
          i < Len(dequeued) =>
              /\ dequeued[i] \notin executing
              /\ Len(dstatus[dequeued[i]]) = 1
              /\ StatusOf(dequeued[i]) # STATUS_PENDING

\* C10 witness: the second dequeued task is in the executor, and the first
\* one went through the executor too and has its outcome written.
C10_Witness ==
    /\ Len(dequeued) = 2
    /\ executing = {dequeued[2]}
    /\ dequeued[1] \in executed
    /\ StatusOf(dequeued[1]) = STATUS_READY

\* C11: tasks are dispatched in the order they were enqueued, and they leave
\* Pending in that order: the ids dequeued so far are the first ids submitted,
\* in the same order, and whenever the record of a later-submitted task
\* exists, the record of every earlier-submitted task has already left
\* Pending (the Dispatcher has written its outcome).
C11_FifoOrder ==
    /\ Len(dequeued) <= Len(submitted)
    /\ \A i \in 1..Len(dequeued) : dequeued[i] = submitted[i].transaction_id
    /\ \A i, j \in 1..Len(submitted) :
          (i < j /\ HasRow(rqueue, submitted[j].transaction_id))
          => /\ dstatus[submitted[i].transaction_id] # <<>>
             /\ StatusOf(submitted[i].transaction_id)
                  \in {STATUS_READY, STATUS_FAILED, STATUS_COMPLETED}

\* Two tasks were waiting in the queue together; the first is resolved and
\* the second has just got its pending record.
C11_Witness ==
    /\ Len(submitted) = 2
    /\ Len(dequeued) = 2
    /\ StatusOf(submitted[1].transaction_id) = STATUS_READY
    /\ StatusOf(submitted[2].transaction_id) = STATUS_PENDING
    /\ hpc = "resolve"

\* C12: stop() never abandons the task in flight.  The stop flag is read only
\* at the top of the loop, so a thread that has ended has written an outcome
\* for every task it dequeued; and a task that was in flight when stop() was
\* called gets its outcome written by the Handler thread, whether or not the
\* join(timeout=5.0) of router_lifespan has returned in the meantime.
C12_StopKeepsInflight ==
    /\ []((hpc = "stopped") =>
            \A i \in 1..Len(dequeued) :
                /\ Len(dstatus[dequeued[i]]) = 1
                /\ StatusOf(dequeued[i]) # STATUS_PENDING)
    /\ \A tid \in Ids :
          (stopInflight = tid) ~> (Len(dstatus[tid]) = 1 /\ hpc = "stopped")

\* stop() came while a task was in flight, join() gave up waiting (the
\* lifespan is over while the thread still ran), and the thread has since
\* written that task's ready outcome and ended.
C12_Witness ==
    /\ stopInflight \in Ids
    /\ lpc = "down"
    /\ hpc = "stopped"
    /\ dstatus[stopInflight] = <<STATUS_READY>>
    /\ StatusOf(stopInflight) = STATUS_READY

\* C13: once stop() has set the flag, the Handler thread eventually ends,
\* given that route methods terminate: a get on an empty queue times out and
\* the flag is read again, and tasks submitted meanwhile do not keep the
\* thread alive, because the flag is read before every get.
C13_StopReachesStopped == stop_event ~> (hpc = "stopped")

\* The thread has ended after stop() although a submitted task is still
\* waiting in the queue, and no task was in flight when stop() came.
C13_Witness ==
    /\ stop_event
    /\ hpc = "stopped"
    /\ iqueue # <<>>
    /\ stopInflight = UnknownId

\* The ids waiting in iqueue.
QueuedIds == {iqueue[i].transaction_id : i \in 1..Len(iqueue)}

C16_CompletedFixedPoint ==
    /\ [](\A tid \in Ids :
            StatusOf(tid) = STATUS_COMPLETED =>
                /\ AnswerNow(tid).code = 200
                /\ AnswerNow(tid).task.status = STATUS_COMPLETED
                /\ AnswerNow(tid).task.payload = firstReady[tid].payload)
    /\ [][\A tid \in Ids :
            StatusOf(tid) = STATUS_COMPLETED =>
                /\ AnswerNow(tid)' = AnswerNow(tid)
                /\ status_get(tid) => UNCHANGED <<rqueue, apiPc, apiTask>>]_vars

\* Every submitted task has been processed and acknowledged: each record is
\* completed, no call is in progress, and a status call on either is enabled.
C16_Witness ==
    /\ issued = MaxTasks
    /\ apiPc = "idle"
    /\ \A tid \in Ids : StatusOf(tid) = STATUS_COMPLETED /\ readyObs[tid] = 1
    /\ \A tid \in Ids : ENABLED status_get(tid)

\* The payload column as put stored it for the i-th submitted task.
StoredAtPut(i) ==
    RowOf(put({}, submitted[i].transaction_id, submitted[i].route,
              submitted[i].payload).table,
          submitted[i].transaction_id).payload

\* C17: the payload of a record is input kept apart from the result: once
\* the Handler thread has written a task's ready or failed outcome, the
\* payload column of its record still holds what put stored from the
\* submitted payload.
C17_PayloadKept ==
    \A i \in 1..Len(submitted) :
        LET tid == submitted[i].transaction_id
        IN  (dstatus[tid] # <<>> /\ HasRow(rqueue, tid))
                => RowOf(rqueue, tid).payload = StoredAtPut(i)

\* C18: the acknowledgment operation, whenever it is called, changes a
\* status only from ready to completed: in no step does a record that was
\* not completed become completed from any status but ready.
C18_AckOnlyFromReady ==
    [][\A tid \in Ids :
          (/\ HasRow(rqueue, tid)
           /\ StatusOf(tid) # STATUS_COMPLETED
           /\ StatusOf(tid)' = STATUS_COMPLETED)
          => StatusOf(tid) = STATUS_READY]_vars

\* The rows of a table other than the one of tid.
OtherRows(table, tid) == {r \in table : r.transaction_id # tid}

\* C19: the frame of task_done on every store the program reaches and every
\* id.  With purge it removes the named row and nothing else; without purge
\* the named row keeps its route and payload (the result) and gets status
\* completed, and every other row stays as it is; for an id without a row
\* either call leaves the store as it is.
C19_TaskDoneFrame ==
    \A tid \in Ids \cup {UnknownId} :
        LET purged == task_done(rqueue, tid, TRUE)
            marked == task_done(rqueue, tid, FALSE)
        IN  /\ ~HasRow(purged, tid)
            /\ OtherRows(purged, tid) = OtherRows(rqueue, tid)
            /\ OtherRows(marked, tid) = OtherRows(rqueue, tid)
            /\ HasRow(rqueue, tid) =>
                  /\ Cardinality(marked) = Cardinality(rqueue)
                  /\ RowOf(marked, tid).status = STATUS_COMPLETED
                  /\ RowOf(marked, tid).payload = RowOf(rqueue, tid).payload
                  /\ RowOf(marked, tid).route = RowOf(rqueue, tid).route
            /\ ~HasRow(rqueue, tid) => (purged = rqueue /\ marked = rqueue)

\* A direct call has purged the record of a processed task while the record
\* of the other task, acknowledged with its result, is still in the store.
C19_Witness ==
    \E t1, t2 \in DequeuedIds :
        /\ t1 # t2
        /\ Processed(t1) /\ ~HasRow(rqueue, t1)
        /\ StatusOf(t2) = STATUS_COMPLETED
        /\ ResultOf(t2) = TASK_DONE

\* C20: update_status on an id that has no row fails with an error and
\* leaves the store as it is.  Checked where the program makes such a call:
\* the Handler thread is about to write the outcome of a task whose record
\* a purge has removed meanwhile.
C20_UpdateAbsentFails ==
    (/\ hpc \in {"resolve", "result"}
     /\ ~HasRow(rqueue, task.transaction_id))
    => \A status \in {STATUS_READY, STATUS_FAILED} :
          \A payload \in {TASK_DONE, ErrorDict(HANDLER_ERROR)} :
              LET u == update_status(rqueue, task.transaction_id, status, payload)
              IN  ~u.ok /\ u.table = rqueue

\* C21: put on every table and for every id, route and payload.  For an id
\* without a row it adds exactly one row, with that id and route and with
\* status pending; for an id that has a row the INSERT raises (PRIMARY KEY)
\* and the table, that row's status and payload included, stays as it is.
C21_PutCreatesOrRaises ==
    \A tid \in Ids, route \in Routes, payload \in Payloads :
        LET p == put(rqueue, tid, route, payload)
        IN  IF HasRow(rqueue, tid)
            THEN ~p.ok /\ p.table = rqueue
            ELSE /\ p.ok
                 /\ OtherRows(p.table, tid) = rqueue
                 /\ Cardinality(p.table) = Cardinality(rqueue) + 1
                 /\ RowOf(p.table, tid).status = STATUS_PENDING
                 /\ RowOf(p.table, tid).route = route

\* A put for an id whose record was already ready has raised, and the
\* record is still ready with its result.
C21_Witness ==
    /\ ~lastPut.ok
    /\ StatusOf(lastPut.tid) = STATUS_READY
    /\ ResultOf(lastPut.tid) = TASK_DONE

\* C22: the status endpoint answers three ways.  For an id no submit has
\* returned it answers 404; for a submitted id whose task has no outcome yet
\* it answers 202 with a pending record, never 404; for a submitted id whose
\* outcome is written it answers 200 with the record (ready, failed or
\* completed).
C22_ThreeWay ==
    \A tid \in Ids \cup {UnknownId} :
        IF tid \notin SubmittedIds
        THEN AnswerNow(tid).code = 404
        ELSE IF dstatus[tid] = <<>>
        THEN /\ AnswerNow(tid).code = 202
             /\ AnswerNow(tid).task.status = STATUS_PENDING
        ELSE /\ AnswerNow(tid).code = 200
             /\ AnswerNow(tid).task.status
                  \in {STATUS_READY, STATUS_FAILED, STATUS_COMPLETED}

\* The payload cells update_status writes for a returned value, and for an error.
ResultCells ==
    {Cell("TEXT", json_dumps(v).text) : v \in {w \in ReturnValues : json_dumps(w).ok}}
ErrorCells == {Cell("TEXT", json_dumps(e).text) : e \in ErrorResults}

\* C23: no reader sees a half-written record.  In every state, which is
\* every moment at which get_task or dump can take the lock, each row is
\* either as put wrote it (status pending, payload the submitted one) or as
\* one update_status wrote it (status ready or completed with a returned
\* value as payload, status failed with an error as payload); a row with a
\* new status and the old payload, or the reverse, does not occur, and
\* get_task and dump show the same row.
C23_NoTornRecord ==
    \A i \in 1..Len(submitted) :
        LET tid == submitted[i].transaction_id
        IN  HasRow(rqueue, tid) =>
              LET row == RowOf(dump(rqueue), tid)
              IN  /\ \/ row.status = STATUS_PENDING /\ row.payload = StoredAtPut(i)
                     \/ /\ row.status \in {STATUS_READY, STATUS_COMPLETED}
                        /\ row.payload \in ResultCells
                     \/ row.status = STATUS_FAILED /\ row.payload \in ErrorCells
                  /\ (row.status = STATUS_PENDING) <=> (dstatus[tid] = <<>>)
                  /\ get_task(rqueue, tid).status = row.status

\* While the Handler thread waits for the second task's future, the first
\* record is ready with its result and the second is pending with its input.
C23_Witness ==
    /\ hpc = "result"
    /\ Len(dequeued) = 2
    /\ RowOf(rqueue, dequeued[1]).status = STATUS_READY
    /\ RowOf(rqueue, dequeued[1]).payload \in ResultCells
    /\ RowOf(rqueue, dequeued[2]).status = STATUS_PENDING
    /\ RowOf(rqueue, dequeued[2]).payload = StoredAtPut(2)

\* C24: a record stays until it is purged.  A row leaves the table only in
\* a step that is a set_task_done call with purge for that row's id; a step
\* of the Handler thread, a status call or an acknowledgment without purge
\* removes none.  While the row is there, the status call finds it and dump
\* lists it.
C24_RetainedUntilPurged ==
    /\ [][\A tid \in Ids :
            (HasRow(rqueue, tid) /\ ~HasRow(rqueue', tid))
            => (call_set_task_done(tid, TRUE) /\ tid \in purgedIds')]_vars
    /\ [](\A tid \in Ids :
            HasRow(rqueue, tid) =>
                /\ AnswerNow(tid).code # 404
                /\ \E r \in dump(rqueue) : r.transaction_id = tid)

\* One record has gone through pending, ready and the endpoint's
\* acknowledgment and is still listed as completed, while the other one was
\* purged after it had been written.
C24_Witness ==
    \E t1, t2 \in DequeuedIds :
        /\ readyObs[t1] = 1
        /\ StatusOf(t1) = STATUS_COMPLETED
        /\ apiPc = "idle"
        /\ t2 \in purgedIds
        /\ dstatus[t2] # <<>>
        /\ ~HasRow(rqueue, t2)

\* C25: a failed store write does not let a task be dropped silently.  When
\* the INSERT of a task's record raises, the Handler thread ends with that
\* exception, and an ended thread takes no further task; when the ready
\* write raises, the failed write of the except clause follows in the same
\* step.  So every task the thread has left behind for a later one has its
\* record, and that record is not pending.
C25_NoSilentDrop ==
    /\ [][(/\ hpc = "put"
            /\ hpc' # "put"
            /\ ~put(rqueue, task.transaction_id, task.route, task.payload).ok)
          => hpc' = "died"]_vars
    /\ [][hpc = "died" => (hpc' = "died" /\ dequeued' = dequeued)]_vars
    /\ [](\A i \in 1..Len(dequeued) :
            i < Len(dequeued) =>
                /\ HasRow(rqueue, dequeued[i])
                /\ StatusOf(dequeued[i]) # STATUS_PENDING
                /\ Len(dstatus[dequeued[i]]) = 1)

\* The INSERT for the second task raised after the first task had been
\* processed: the thread has ended, the task has no record and its queue
\* item is still counted as unfinished.
C25_Witness ==
    /\ hpc = "died"
    /\ Len(dequeued) = 2
    /\ task.payload = BIG_INT
    /\ ~HasRow(rqueue, task.transaction_id)
    /\ dstatus[dequeued[1]] # <<>>
    /\ unfinished_tasks = Len(iqueue) + 1

\* C26: the pending record is inserted before the route is looked up and
\* before the executor gets the task: while the Handler thread is at the
\* route lookup or waits for the future, the record of its task exists, and
\* for every task in execution the record is pending with the submitted
\* payload and the status call answers 202.
C26_PendingBeforeExecution ==
    /\ (hpc \in {"resolve", "result"}) =>
          /\ HasRow(rqueue, task.transaction_id)
          /\ StatusOf(task.transaction_id) = STATUS_PENDING
    /\ \A tid \in executing :
          /\ StatusOf(tid) = STATUS_PENDING
          /\ AnswerNow(tid).code = 202
          /\ AnswerNow(tid).task.transaction_id = tid

\* The second task is in execution with a pending record while the first
\* one is already resolved.
C26_Witness ==
    /\ Len(dequeued) = 2
    /\ executing = {dequeued[2]}
    /\ AnswerNow(dequeued[2]).code = 202
    /\ AnswerNow(dequeued[1]).code = 200

\* The number of items the Handler thread has dequeued and not yet
\* acknowledged: the one it is working on, if any.
InProcess == IF hpc \in {"put", "resolve", "result", "task_done", "died"} THEN 1 ELSE 0

\* iqueue.task_done() is called once per dequeued item (the count goes down
\* by one, in the step after process_queue_task) and only after the outcome
\* of that item's task has been written.
AckOncePerItem ==
    (unfinished_tasks' # unfinished_tasks /\ unfinished_tasks' <= unfinished_tasks)
    => /\ unfinished_tasks' = unfinished_tasks - 1
       /\ hpc = "task_done"
       /\ Len(dstatus[task.transaction_id]) = 1
       /\ StatusOf(task.transaction_id) # STATUS_PENDING

\* C27 as stated: with one acknowledgment per dequeued item, after its
\* outcome is written, the queue's count of unacknowledged items
\* (unfinished_tasks) always equals the number of items dequeued but not yet
\* fully processed.
C27_AckCountAsStated == unfinished_tasks = InProcess

\* C27 amended: one acknowledgment per dequeued item, after its outcome is
\* written, so that the queue's count of unacknowledged items
\* (unfinished_tasks, which put raises and task_done lowers) equals the
\* number of items still waiting in the queue plus the number dequeued but
\* not yet fully processed; the number of acknowledgments so far is the
\* number of items dequeued and no longer in process.
C27_AckCount ==
    /\ [][AckOncePerItem]_vars
    /\ [](unfinished_tasks = Len(iqueue) + InProcess)
    /\ [](Len(submitted) - unfinished_tasks = Len(dequeued) - InProcess)

\* One item has been acknowledged after its outcome was written, the thread
\* is back in its loop, and another item waits in the queue: one unfinished
\* task is counted although none is in process.
C27_Witness ==
    /\ Len(dequeued) = 1
    /\ dstatus[dequeued[1]] # <<>>
    /\ hpc \in {"while", "get"}
    /\ Len(iqueue) = 1
    /\ unfinished_tasks = 1

\* The ids for which the Handler thread's put has inserted a record.
CreatedIds == {tid \in DequeuedIds : task.transaction_id = tid => hpc # "put"}

\* C28: the list is exactly the retained records.  The ids listed by
\* get_response_queue are the ids whose record was created and not purged,
\* one row each, whatever the status of the row; a completed or failed
\* record is listed like any other, and nothing else is.
C28_ListIsRetained ==
    /\ {r.transaction_id : r \in get_response_queue(rqueue)} = CreatedIds \ purgedIds
    /\ Cardinality(get_response_queue(rqueue)) = Cardinality(CreatedIds \ purgedIds)
    /\ \A tid \in CreatedIds \ purgedIds :
          \E r \in get_response_queue(rqueue) :
              r.transaction_id = tid /\ r.status = StatusOf(tid)

\* The list holds a completed record while the record of another task,
\* created and then purged, is not in it.
C28_Witness ==
    \E t1, t2 \in CreatedIds :
        /\ t2 \in purgedIds
        /\ \A r \in get_response_queue(rqueue) : r.transaction_id # t2
        /\ \E r \in get_response_queue(rqueue) :
              r.transaction_id = t1 /\ r.status = STATUS_COMPLETED

\* C29: once stop() has set the flag, the Handler thread begins at most one
\* further task (the one a get already under way hands it) before its loop
\* ends; after the loop has ended the thread takes nothing from the queue,
\* so the items left there stay queued, without a record and without an
\* outcome.
C29_AtMostOneAfterStop ==
    /\ [](stop_event => Len(dequeued) <= stopDequeued + 1)
    /\ [][hpc = "stopped" =>
             /\ hpc' = "stopped"
             /\ dequeued' = dequeued
             /\ \A i \in 1..Len(iqueue) : iqueue'[i] = iqueue[i]]_vars
    /\ []((hpc = "stopped") =>
            \A tid \in QueuedIds : ~HasRow(rqueue, tid) /\ dstatus[tid] = <<>>)

\* stop() came while the thread sat in get with two tasks submitted after
\* it: the thread took one, finished it and ended; the other is still queued.
C29_Witness ==
    /\ hpc = "stopped"
    /\ stopDequeued = 0
    /\ Len(dequeued) = 1
    /\ dstatus[dequeued[1]] # <<>>
    /\ Len(iqueue) >= 1

\* C30: records exist only for dequeued tasks.  Every row of the table, and
\* so every entry of the list, belongs to a task the Handler thread has
\* dequeued; a task still waiting in the queue has no record, whether it was
\* submitted before the thread was started or is left over after the loop
\* has ended.  Submit itself does not depend on the thread: in every state
\* of the lifespan and of the thread a submit is accepted and returns the
\* next id (up to the number of submits the model allows).
C30_RecordOnlyIfDequeued ==
    /\ \A r \in get_response_queue(rqueue) : r.transaction_id \in DequeuedIds
    /\ \A tid \in QueuedIds :
          /\ ~HasRow(rqueue, tid)
          /\ get_task_status(rqueue, tid) = None
    /\ (apiPc = "idle" /\ issued < MaxTasks) =>
          \A route \in Routes, payload \in Payloads :
              ENABLED put_task_queue(route, payload)

\* Two tasks were submitted and accepted, but the thread was stopped and
\* has ended without taking either: both wait in the queue, the list is empty.
C30_Witness ==
    /\ hpc = "stopped"
    /\ Len(iqueue) = 2
    /\ dequeued = <<>>
    /\ get_response_queue(rqueue) = {}

\* C31: polling never changes a failed record.  A status call on a failed
\* record is over in its first step, answers 200 with the record, and goes
\* on to no set_task_done; and since nothing else writes a record the
\* Handler thread has resolved, a failed record keeps its status and its
\* result in every later step.
C31_FailedUnchangedByStatus ==
    /\ [](\A tid \in Ids :
            StatusOf(tid) = STATUS_FAILED =>
                /\ AnswerNow(tid).code = 200
                /\ AnswerNow(tid).task.status = STATUS_FAILED
                /\ AnswerNow(tid).task.payload \in ErrorResults
                /\ readyObs[tid] = 0)
    /\ [][/\ rqueue' # rqueue =>
                \A tid \in Ids :
                    StatusOf(tid) = STATUS_FAILED =>
                        /\ StatusOf(tid)' = STATUS_FAILED
                        /\ ResultOf(tid)' = ResultOf(tid)
          /\ \A tid \in Ids :
                (StatusOf(tid) = STATUS_FAILED /\ status_get(tid)) =>
                    UNCHANGED <<rqueue, apiPc, apiTask>>]_vars

\* Both records are failed, one for an unknown route and one for an
\* exception of the route method; no call is in progress and a status call
\* on either is enabled.
C31_Witness ==
    /\ apiPc = "idle"
    /\ hpc = "stopped"
    /\ \E t1, t2 \in DequeuedIds :
          /\ StatusOf(t1) = STATUS_FAILED
          /\ ResultOf(t1) = ErrorDict(UnknownRouteMsg(RouteOf(t1)))
          /\ StatusOf(t2) = STATUS_FAILED
          /\ ResultOf(t2) = ErrorDict(HANDLER_ERROR)
          /\ ENABLED status_get(t1) /\ ENABLED status_get(t2)

\* C32: a purged record never reappears.  Once a purge has deleted the row
\* of an id, no later step brings a row of that id back: the status call
\* answers 404 and the list does not show it.  This includes the purge of
\* a task in flight: the outcome the Handler thread writes afterwards
\* matches no row.
C32_PurgedStaysGone ==
    \A tid \in purgedIds :
        /\ ~HasRow(rqueue, tid)
        /\ get_task_status(rqueue, tid) = None
        /\ AnswerNow(tid).code = 404
        /\ \A r \in get_response_queue(rqueue) : r.transaction_id # tid

\* A record was purged while its task was in execution; the Handler thread
\* has since written the task's ready outcome and acknowledged the queue
\* item, and the status call for the id answers 404.
C32_Witness ==
    \E tid \in purgedInFlight :
        /\ dstatus[tid] = <<STATUS_READY>>
        /\ outcome[tid].value = TASK_DONE
        /\ Processed(tid)
        /\ AnswerNow(tid).code = 404

(***************************************************************************)
(* FastAPIThreadedServer: start() and stop() called one after the other by *)
(* one caller, and the uvicorn threads start() creates.                    *)
(***************************************************************************)
handlerVars == <<storeVars, queueVars, threadVars, apiVars, stopVars, callVars, lpc,
                 purgedInFlight>>

Threads == 1..MaxStarts

\* threading.Thread.is_alive(): started and its target has not returned.
is_alive(i) == threads[i] \in {"created", "serving"}

\* The threads start() has created so far.
born == Cardinality({i \in Threads : threads[i] # "unborn"})

START_RAISED == "start: RuntimeError"
START_DONE == "start: started"
STOP_NOTHING == "stop: nothing to stop"
STOP_JOINED == "stop: joined"
STOP_TIMED_OUT == "stop: join timed out"

\* start(): raises when the thread it references is alive, else makes a
\* uvicorn.Server and a thread for it and starts the thread.
server_start ==
    /\ spc = "idle"
    /\ IF server_thread # 0 /\ is_alive(server_thread)
       THEN /\ lastCall' = START_RAISED
            /\ UNCHANGED <<server_thread, server, threads>>
       ELSE /\ born < MaxStarts
            /\ server' = born + 1
            /\ server_thread' = born + 1
            /\ threads' = [threads EXCEPT ![born + 1] = "created"]
            /\ lastCall' = START_DONE
    /\ UNCHANGED <<runs, should_exit, should_stop, spc, handlerVars>>

\* stop(), up to the join: returns at once when no thread is referenced, else
\* sets _should_stop and the should_exit of the current uvicorn.Server.
server_stop ==
    /\ spc = "idle"
    /\ IF server_thread = 0
       THEN /\ lastCall' = STOP_NOTHING
            /\ UNCHANGED <<should_stop, should_exit, spc>>
       ELSE /\ should_stop' = TRUE
            /\ should_exit' = [should_exit EXCEPT ![server] = TRUE]
            /\ spc' = "join"
            /\ UNCHANGED lastCall
    /\ UNCHANGED <<server_thread, server, threads, runs, handlerVars>>

\* stop(), from the return of join(timeout): join returns when the thread has
\* ended or when the timeout has passed, and stop() resets its state in both
\* cases.
server_stop_join ==
    /\ spc = "join"
    /\ lastCall' = IF is_alive(server_thread) THEN STOP_TIMED_OUT ELSE STOP_JOINED
    /\ should_stop' = FALSE
    /\ server_thread' = 0
    /\ server' = 0
    /\ spc' = "idle"
    /\ UNCHANGED <<threads, runs, should_exit, handlerVars>>

\* _run() of thread i: the loop test, then self.server.run() on whatever
\* self.server holds at that moment. The thread ends without serving when
\* _should_stop is set, when self.server is None, or when uvicorn's startup
\* fails.
server_thread_run(i) ==
    /\ threads[i] = "created"
    /\ \E startup_ok \in BOOLEAN :
         IF should_stop \/ server = 0 \/ ~startup_ok
         THEN /\ threads' = [threads EXCEPT ![i] = "dead"]
              /\ UNCHANGED runs
         ELSE /\ threads' = [threads EXCEPT ![i] = "serving"]
              /\ runs' = [runs EXCEPT ![i] = server]
    /\ UNCHANGED <<server_thread, server, should_exit, should_stop, spc, lastCall,
                   handlerVars>>

\* server.run() returns in thread i once should_exit of its uvicorn.Server is
\* set and the shutdown is over; _run() breaks out of the loop and ends.
server_thread_exit(i) ==
    /\ threads[i] = "serving"
    /\ should_exit[runs[i]]
    /\ threads' = [threads EXCEPT ![i] = "dead"]
    /\ UNCHANGED <<server_thread, server, runs, should_exit, should_stop, spc,
                   lastCall, handlerVars>>

NextServer ==
    \/ server_start
    \/ server_stop
    \/ server_stop_join
    \/ \E i \in Threads : server_thread_run(i)
    \/ \E i \in Threads : server_thread_exit(i)

SpecServer == Init /\ [][NextServer]_vars

AliveThreads == {i \in Threads : is_alive(i)}

\* What start() and stop() do as coded: start() raises and starts nothing when
\* the thread it references is alive, stop() with no referenced thread changes
\* nothing, and a start() that follows a returned stop() does not raise.
StartStopAsCoded ==
    [][/\ (server_start /\ server_thread # 0 /\ is_alive(server_thread)) =>
            /\ lastCall' = START_RAISED
            /\ UNCHANGED <<server_thread, server, threads, runs, should_exit,
                           should_stop>>
       /\ (server_stop /\ server_thread = 0) =>
            /\ lastCall' = STOP_NOTHING
            /\ UNCHANGED <<server_thread, server, threads, runs, should_exit,
                           should_stop, spc>>
       /\ (server_start /\ lastCall \in {STOP_JOINED, STOP_TIMED_OUT, STOP_NOTHING}) =>
            /\ lastCall' = START_DONE
            /\ is_alive(server_thread)']_vars

\* C33: over any sequence of start() and stop() calls at most one server
\* thread is alive at a time.
C33_OneServerThread == Cardinality(AliveThreads) <= 1

\* Two server threads alive after start(), a stop() whose join timed out, and
\* a second start() that did not raise.
TwoServersAlive ==
    /\ lastCall = START_DONE
    /\ Cardinality(AliveThreads) = 2
    /\ \E i \in Threads : threads[i] = "serving" /\ should_exit[runs[i]]

====
